---------------------------- MODULE Spec2Model ----------------------------
(***************************************************************************)
(* NAT2 genotype lookup and isoniazid dosing recommendation                *)
(* (Hackathon_Phas1.py): the module-level table NAT2_GENOTYPES, the class  *)
(* NAT2Analyzer with analyze_genotype and get_dosing_recommendation, and   *)
(* the "Generate Recommendations" flow of create_app.                      *)
(*                                                                         *)
(* Python dicts are functions; a dict that keeps insertion order and is    *)
(* iterated (NAT2_GENOTYPES) is a sequence of records carrying their key.  *)
(* The float 'frequency' is held in tenths of a percent (3.3 is 33).       *)
(***************************************************************************)
EXTENDS Integers, Sequences, FiniteSets, TLC

VARIABLES
    NAT2_GENOTYPES,      \* the module-level genotype table
    mutation_positions,  \* NAT2Analyzer.mutation_positions
    pc,                  \* position of the sequential caller
    mutations,           \* the observed mapping handed to analyze_genotype
    result,              \* what analyze_genotype returned (or raised)
    acetylator_type,     \* the argument handed to get_dosing_recommendation
    recommendations,     \* what get_dosing_recommendation returned
    threads,             \* concurrent callers: one record per caller
    analyze_log,         \* history: <<input, output>> of finished analyze calls
    dosing_log           \* history: <<input, output>> of finished dosing calls

vars == <<NAT2_GENOTYPES, mutation_positions, pc, mutations, result,
          acetylator_type, recommendations, threads, analyze_log, dosing_log>>

---------------------------------------------------------------------------
(* Bounds of the model *)

\* number of concurrent callers in SpecConc
NumCallers == 2

Callers == 1 .. NumCallers

---------------------------------------------------------------------------
(* Data *)

\* the options of every select box
Alphabet == {".", "A", "C", "G", "T"}

\* NAT2_GENOTYPES as written in the source, in insertion order
GenotypeTable ==
    << [genotype |-> "NAT2*4/*4", acetylator_type |-> "Fast", frequency |-> 33,
        mutations |-> (282 :> "." @@ 341 :> "." @@ 481 :> "." @@
                       590 :> "." @@ 803 :> "." @@ 857 :> ".")],
       [genotype |-> "NAT2*4/*14", acetylator_type |-> "Intermediate", frequency |-> 8,
        mutations |-> (282 :> "." @@ 341 :> "." @@ 481 :> "." @@
                       590 :> "." @@ 803 :> "A" @@ 857 :> "G")],
       [genotype |-> "NAT2*4/*5", acetylator_type |-> "Intermediate", frequency |-> 150,
        mutations |-> (282 :> "." @@ 341 :> "C" @@ 481 :> "T" @@
                       590 :> "." @@ 803 :> "G" @@ 857 :> ".")],
       [genotype |-> "NAT2*5/*5", acetylator_type |-> "Slow", frequency |-> 242,
        mutations |-> (282 :> "." @@ 341 :> "C" @@ 481 :> "T" @@
                       590 :> "." @@ 803 :> "G" @@ 857 :> ".")],
       [genotype |-> "NAT2*6/*6", acetylator_type |-> "Slow", frequency |-> 158,
        mutations |-> (282 :> "T" @@ 341 :> "." @@ 481 :> "." @@
                       590 :> "A" @@ 803 :> "." @@ 857 :> ".")] >>

\* NAT2Analyzer.__init__
AnalyzerPositions == <<282, 341, 481, 590, 803, 857>>

\* the empty dict of create_app, before the select boxes fill it
EmptyDict == [k \in {} |-> "."]

\* no value yet (a call that has not returned)
None == <<>>

\* an exception leaving a call
KeyError == <<"KeyError">>

\* the value of the final return of analyze_genotype
Unknown == <<"Unknown", "Unknown", 0>>

---------------------------------------------------------------------------
(* NAT2Analyzer *)

\* dict.get(key, default)
DictGet(d, key, default) == IF key \in DOMAIN d THEN d[key] ELSE default

\* AllEqual with the last position never compared (a loop that stops early)
RECURSIVE AllEqualSkipLast(_, _, _, _)
AllEqualSkipLast(muts, data, positions, k) ==
    IF k >= Len(positions) THEN "True"
    ELSE IF positions[k] \notin DOMAIN data.mutations THEN "KeyError"
    ELSE IF DictGet(muts, positions[k], ".") # data.mutations[positions[k]] THEN "False"
    ELSE AllEqualSkipLast(muts, data, positions, k + 1)

\* AllEqual with mutations.get(pos), whose default is Python's None, not '.'
RECURSIVE AllEqualNoDefault(_, _, _, _)
AllEqualNoDefault(muts, data, positions, k) ==
    IF k > Len(positions) THEN "True"
    ELSE IF positions[k] \notin DOMAIN data.mutations THEN "KeyError"
    ELSE IF DictGet(muts, positions[k], "None") # data.mutations[positions[k]] THEN "False"
    ELSE AllEqualNoDefault(muts, data, positions, k + 1)

\* all(mutations.get(pos, '.') == data['mutations'][pos] for pos in positions),
\* from the k-th position on: the generator stops at the first inequality,
\* and data['mutations'][pos] raises KeyError on a position the record lacks
RECURSIVE AllEqual(_, _, _, _)
AllEqual(muts, data, positions, k) ==
    IF k > Len(positions) THEN "True"
    ELSE IF positions[k] \notin DOMAIN data.mutations THEN "KeyError"
    ELSE IF DictGet(muts, positions[k], ".") # data.mutations[positions[k]] THEN "False"
    ELSE AllEqual(muts, data, positions, k + 1)

\* the return statement inside the loop
Triple(data) == <<data.genotype, data.acetylator_type, data.frequency>>

\* Scan without the early return: a later agreeing record overwrites an earlier
RECURSIVE ScanLast(_, _, _, _)
ScanLast(table, positions, muts, i) ==
    IF i > Len(table) THEN Unknown
    ELSE LET t == AllEqual(muts, table[i], positions, 1)
             rest == ScanLast(table, positions, muts, i + 1)
         IN  IF t = "KeyError" THEN KeyError
             ELSE IF t = "True" /\ rest = Unknown THEN Triple(table[i])
             ELSE rest

\* the for loop of analyze_genotype from the i-th item of the table on
RECURSIVE Scan(_, _, _, _)
Scan(table, positions, muts, i) ==
    IF i > Len(table) THEN Unknown
    ELSE LET t == AllEqual(muts, table[i], positions, 1)
         IN  IF t = "KeyError" THEN KeyError
             ELSE IF t = "True" THEN Triple(table[i])
             ELSE Scan(table, positions, muts, i + 1)

\* analyze_genotype answering Unknown to a mapping with a key it does not know
analyze_genotype_strict(self_positions, muts) ==
    IF DOMAIN muts \subseteq {self_positions[k] : k \in 1 .. Len(self_positions)}
    THEN Scan(NAT2_GENOTYPES, self_positions, muts, 1)
    ELSE Unknown

analyze_genotype(self_positions, muts) == Scan(NAT2_GENOTYPES, self_positions, muts, 1)

\* the local dict 'recommendations' of get_dosing_recommendation
KnownRecommendations ==
    [Fast |->
        [dose |-> "5-6 mg/kg/day",
         risk |-> "Lower risk of adverse effects, monitor for treatment efficacy",
         monitoring |-> "Regular liver function tests every 3 months",
         details |-> "May require higher doses to maintain therapeutic levels"],
     Intermediate |->
        [dose |-> "4-5 mg/kg/day",
         risk |-> "Moderate risk of adverse effects",
         monitoring |-> "Liver function tests every 2 months",
         details |-> "Standard dosing usually appropriate"],
     Slow |->
        [dose |-> "2.5-4 mg/kg/day",
         risk |-> "Higher risk of drug-induced liver injury",
         monitoring |-> "Monthly liver function tests",
         details |-> "Requires reduced dosing to prevent toxicity"]]

\* the default handed to recommendations.get
DefaultRecommendation ==
    [dose |-> "Consult specialist",
     risk |-> "Unknown",
     monitoring |-> "Frequent monitoring required",
     details |-> "Individual assessment needed"]

\* get_dosing_recommendation with the Slow entry a copy of the Intermediate one
get_dosing_recommendation_copied(atype) ==
    IF atype = "Slow" THEN KnownRecommendations.Intermediate
    ELSE DictGet(KnownRecommendations, atype, DefaultRecommendation)

\* get_dosing_recommendation defaulting to the standard (Intermediate) dosing
get_dosing_recommendation_standard(atype) ==
    DictGet(KnownRecommendations, atype, KnownRecommendations.Intermediate)

get_dosing_recommendation(atype) ==
    DictGet(KnownRecommendations, atype, DefaultRecommendation)

---------------------------------------------------------------------------
(* Inputs *)

\* a key that is none of the analyzer's positions
OtherKeys == {191}

\* every dict from a subset of the keys to the select-box options
ObservedMappings ==
    UNION { [S -> Alphabet] : S \in SUBSET ({282, 341, 481, 590, 803, 857} \cup OtherKeys) }

\* arguments of a direct call of get_dosing_recommendation
ArgValues == {"Fast", "Intermediate", "Slow", "Unknown",
              "", "fast", "SLOW", "Rapid", "NAT2*4/*4"}

---------------------------------------------------------------------------
(* Sequential caller: one call of analyze_genotype followed, as in           *)
(* create_app, by get_dosing_recommendation on the returned type; or one     *)
(* direct call of get_dosing_recommendation.                                 *)

IdleThreads == [c \in Callers |-> [pc |-> "off"]]

Init ==
    /\ NAT2_GENOTYPES = GenotypeTable
    /\ mutation_positions = AnalyzerPositions
    /\ result = None
    /\ recommendations = None
    /\ \/ /\ pc = "call_analyze"
          /\ mutations \in ObservedMappings
          /\ acetylator_type = None
       \/ /\ pc = "call_dose"
          /\ mutations = EmptyDict
          /\ acetylator_type \in ArgValues
    /\ threads = IdleThreads
    /\ analyze_log = {}
    /\ dosing_log = {}

\* CallAnalyzeGenotype with the tuple unpacked in the wrong order: the label is
\* handed on as the acetylator type
CallAnalyzeGenotypeSwapped ==
    /\ pc = "call_analyze"
    /\ LET r == analyze_genotype(mutation_positions, mutations)
       IN  /\ result' = r
           /\ IF r = KeyError
              THEN pc' = "raised" /\ UNCHANGED acetylator_type
              ELSE pc' = "call_dose" /\ acetylator_type' = r[1]
    /\ UNCHANGED <<NAT2_GENOTYPES, mutation_positions, mutations, recommendations,
                   threads, analyze_log, dosing_log>>

\* genotype, acetylator_type, frequency = analyzer.analyze_genotype(mutations)
CallAnalyzeGenotype ==
    /\ pc = "call_analyze"
    /\ LET r == analyze_genotype(mutation_positions, mutations)
       IN  /\ result' = r
           /\ IF r = KeyError
              THEN pc' = "raised" /\ UNCHANGED acetylator_type
              ELSE pc' = "call_dose" /\ acetylator_type' = r[2]
    /\ UNCHANGED <<NAT2_GENOTYPES, mutation_positions, mutations, recommendations,
                   threads, analyze_log, dosing_log>>

\* recommendations = analyzer.get_dosing_recommendation(acetylator_type)
CallGetDosingRecommendation ==
    /\ pc = "call_dose"
    /\ recommendations' = get_dosing_recommendation(acetylator_type)
    /\ pc' = "done"
    /\ UNCHANGED <<NAT2_GENOTYPES, mutation_positions, mutations, result,
                   acetylator_type, threads, analyze_log, dosing_log>>

Next == CallAnalyzeGenotype \/ CallGetDosingRecommendation

Spec == Init /\ [][Next]_vars

---------------------------------------------------------------------------
(* Concurrent callers of one analyzer: every caller runs the flow of        *)
(* create_app again and again, and the callers interleave between the       *)
(* iterations of the loop of analyze_genotype.                              *)

\* the observed mappings the concurrent callers choose from
ConcInputs ==
    { EmptyDict,
      GenotypeTable[4].mutations,
      GenotypeTable[5].mutations,
      [p \in {282, 341, 481, 590, 803, 857} |-> "T"] }

\* a caller entering analyze_genotype with the mapping m
Entering(m) ==
    [pc |-> "scan", mutations |-> m, idx |-> 1, result |-> None,
     acetylator_type |-> None, recommendations |-> None]

InitConc ==
    /\ NAT2_GENOTYPES = GenotypeTable
    /\ mutation_positions = AnalyzerPositions
    /\ pc = "off"
    /\ mutations = EmptyDict
    /\ result = None
    /\ acetylator_type = None
    /\ recommendations = None
    /\ threads \in [Callers -> {Entering(m) : m \in ConcInputs}]
    /\ analyze_log = {}
    /\ dosing_log = {}

\* what a caller returning r from analyze_genotype becomes
Returned(t, r) ==
    IF r = KeyError
    THEN [t EXCEPT !.pc = "raised", !.result = r]
    ELSE [t EXCEPT !.pc = "call_dose", !.result = r, !.acetylator_type = r[2]]

\* ScanStep that pops the record it returns from the table
ScanStepPop(c) ==
    LET t == threads[c] IN
    /\ t.pc = "scan"
    /\ t.idx <= Len(NAT2_GENOTYPES)
    /\ LET eq == AllEqual(t.mutations, NAT2_GENOTYPES[t.idx], mutation_positions, 1)
           r  == IF eq = "KeyError" THEN KeyError ELSE Triple(NAT2_GENOTYPES[t.idx])
       IN  IF eq = "False"
           THEN /\ threads' = [threads EXCEPT ![c].idx = t.idx + 1]
                /\ UNCHANGED <<analyze_log, NAT2_GENOTYPES>>
           ELSE /\ threads' = [threads EXCEPT ![c] = Returned(t, r)]
                /\ analyze_log' = analyze_log \cup {<<t.mutations, r>>}
                /\ NAT2_GENOTYPES' =
                      SubSeq(NAT2_GENOTYPES, 1, t.idx - 1)
                         \o SubSeq(NAT2_GENOTYPES, t.idx + 1, Len(NAT2_GENOTYPES))
    /\ UNCHANGED <<mutation_positions, pc, mutations, result,
                   acetylator_type, recommendations, dosing_log>>

\* one iteration of the for loop of analyze_genotype, on the idx-th item
ScanStep(c) ==
    LET t == threads[c] IN
    /\ t.pc = "scan"
    /\ t.idx <= Len(NAT2_GENOTYPES)
    /\ LET eq == AllEqual(t.mutations, NAT2_GENOTYPES[t.idx], mutation_positions, 1)
           r  == IF eq = "KeyError" THEN KeyError ELSE Triple(NAT2_GENOTYPES[t.idx])
       IN  IF eq = "False"
           THEN /\ threads' = [threads EXCEPT ![c].idx = t.idx + 1]
                /\ UNCHANGED analyze_log
           ELSE /\ threads' = [threads EXCEPT ![c] = Returned(t, r)]
                /\ analyze_log' = analyze_log \cup {<<t.mutations, r>>}
    /\ UNCHANGED <<NAT2_GENOTYPES, mutation_positions, pc, mutations, result,
                   acetylator_type, recommendations, dosing_log>>

\* the loop of analyze_genotype is exhausted: return ("Unknown", "Unknown", 0.0)
ReturnUnknown(c) ==
    LET t == threads[c] IN
    /\ t.pc = "scan"
    /\ t.idx > Len(NAT2_GENOTYPES)
    /\ threads' = [threads EXCEPT ![c] = Returned(t, Unknown)]
    /\ analyze_log' = analyze_log \cup {<<t.mutations, Unknown>>}
    /\ UNCHANGED <<NAT2_GENOTYPES, mutation_positions, pc, mutations, result,
                   acetylator_type, recommendations, dosing_log>>

\* recommendations = analyzer.get_dosing_recommendation(acetylator_type)
DoseStep(c) ==
    LET t == threads[c]
        r == get_dosing_recommendation(t.acetylator_type)
    IN
    /\ t.pc = "call_dose"
    /\ threads' = [threads EXCEPT ![c].pc = "done", ![c].recommendations = r]
    /\ dosing_log' = dosing_log \cup {<<t.acetylator_type, r>>}
    /\ UNCHANGED <<NAT2_GENOTYPES, mutation_positions, pc, mutations, result,
                   acetylator_type, recommendations, analyze_log>>

\* the next press of the button: the script runs again with new form values
Rerun(c) ==
    /\ threads[c].pc = "done"
    /\ \E m \in ConcInputs : threads' = [threads EXCEPT ![c] = Entering(m)]
    /\ UNCHANGED <<NAT2_GENOTYPES, mutation_positions, pc, mutations, result,
                   acetylator_type, recommendations, analyze_log, dosing_log>>

NextConc ==
    \E c \in Callers : ScanStep(c) \/ ReturnUnknown(c) \/ DoseStep(c) \/ Rerun(c)

SpecConc == InitConc /\ [][NextConc]_vars

---------------------------------------------------------------------------
(* Properties.  Their vocabulary is defined here, apart from the            *)
(* definitions of the analyzer above.                                       *)

SixPositions == {282, 341, 481, 590, 803, 857}

Classes == {"Fast", "Intermediate", "Slow"}

Fields == {"dose", "risk", "monitoring", "details"}

\* the observed value at a position, an absent position counting as '.'
Observed(m, p) == IF p \in DOMAIN m THEN m[p] ELSE "."

\* the record R expects, at each of the six positions, what m observes there
Agrees(m, R) == \A p \in SixPositions : Observed(m, p) = R.mutations[p]

\* label, acetylator type and frequency of the record R
Row(R) == <<R.genotype, R.acetylator_type, R.frequency>>

Records == 1 .. Len(NAT2_GENOTYPES)

\* the mapping m without the keys in S
Without(m, S) == [k \in (DOMAIN m) \ S |-> m[k]]

\* the mapping m with every absent one of the six positions set to '.'
Completed(m) == [p \in SixPositions |-> Observed(m, p)]

AllWildType == [p \in SixPositions |-> "."]

AllT == [p \in SixPositions |-> "T"]

Fallback ==
    [dose |-> "Consult specialist", risk |-> "Unknown",
     monitoring |-> "Frequent monitoring required",
     details |-> "Individual assessment needed"]

\* the sequential caller's call of analyze_genotype is over
AnalyzeOver == result # None

\* the sequential caller's call of get_dosing_recommendation has returned
DosingReturned == recommendations # None

\* C1: for each of the five records R, analyze_genotype on a mapping equal to
\* R's 'mutations' returns (R's label, R's acetylator_type, R's frequency).
C1_EveryRecordResolvesToItself ==
    AnalyzeOver =>
        \A i \in Records :
            mutations = NAT2_GENOTYPES[i].mutations => result = Row(NAT2_GENOTYPES[i])

\* C2: no two records with different labels expect the same value at all six
\* positions.
C2_NoTwoRecordsCollide ==
    \A i, j \in Records :
        NAT2_GENOTYPES[i].genotype # NAT2_GENOTYPES[j].genotype =>
            \E p \in SixPositions :
                NAT2_GENOTYPES[i].mutations[p] # NAT2_GENOTYPES[j].mutations[p]

\* C3: analyze_genotype raises nothing, and it returns ("Unknown", "Unknown", 0.0)
\* exactly when the observed mapping (absent positions counting as '.') differs
\* from every record in at least one of the six positions.
C3_UnknownIffNoRecordAgrees ==
    AnalyzeOver =>
        /\ pc # "raised"
        /\ result # KeyError
        /\ (result = <<"Unknown", "Unknown", 0>>)
              <=> (\A i \in Records : ~Agrees(mutations, NAT2_GENOTYPES[i]))

C3_Witness ==
    /\ AnalyzeOver
    /\ mutations = AllT
    /\ result = <<"Unknown", "Unknown", 0>>

\* C4: the records are scanned in the order NAT2*4/*4, NAT2*4/*14, NAT2*4/*5,
\* NAT2*5/*5, NAT2*6/*6 and the result is the row of the first record that
\* agrees at all six positions, never that of a later agreeing record.
C4_FirstAgreeingRecordWins ==
    /\ [i \in Records |-> NAT2_GENOTYPES[i].genotype]
          = <<"NAT2*4/*4", "NAT2*4/*14", "NAT2*4/*5", "NAT2*5/*5", "NAT2*6/*6">>
    /\ AnalyzeOver =>
          \A i \in Records :
              Agrees(mutations, NAT2_GENOTYPES[i]) =>
                  /\ (\A j \in 1 .. (i - 1) : ~Agrees(mutations, NAT2_GENOTYPES[j]))
                        => result = Row(NAT2_GENOTYPES[i])
                  /\ (\E j \in 1 .. (i - 1) : Agrees(mutations, NAT2_GENOTYPES[j]))
                        => result # Row(NAT2_GENOTYPES[i])

C4_Witness ==
    /\ AnalyzeOver
    /\ \E i, j \in Records :
          /\ i < j
          /\ Agrees(mutations, NAT2_GENOTYPES[i])
          /\ Agrees(mutations, NAT2_GENOTYPES[j])
    /\ result = <<"NAT2*4/*5", "Intermediate", 150>>

\* C5: a position absent from the observed mapping counts as '.': removing any
\* set of keys whose value is '.' leaves the result the same, and the empty
\* mapping gives ("NAT2*4/*4", "Fast", 3.3) like the mapping of six '.'.
C5_AbsentIsWildType ==
    AnalyzeOver =>
        /\ \A S \in SUBSET {k \in DOMAIN mutations : mutations[k] = "."} :
              analyze_genotype(mutation_positions, Without(mutations, S)) = result
        /\ mutations \in {EmptyDict, AllWildType} => result = <<"NAT2*4/*4", "Fast", 33>>

C5_Witness ==
    /\ AnalyzeOver
    /\ mutations = EmptyDict
    /\ result = <<"NAT2*4/*4", "Fast", 33>>

\* C6: for each of Fast, Intermediate and Slow the recommendation has four
\* non-empty fields, differs from the other two classes' in every field, and
\* for Slow has dose "2.5-4 mg/kg/day" and the liver-injury risk text.
C6_KnownClassRecommendations ==
    (DosingReturned /\ acetylator_type \in Classes) =>
        /\ DOMAIN recommendations = Fields
        /\ \A f \in Fields : recommendations[f] # ""
        /\ \A other \in Classes \ {acetylator_type} : \A f \in Fields :
              get_dosing_recommendation(other)[f] # recommendations[f]
        /\ acetylator_type = "Slow" =>
              /\ recommendations.dose = "2.5-4 mg/kg/day"
              /\ recommendations.risk = "Higher risk of drug-induced liver injury"

C6_Witness ==
    /\ DosingReturned
    /\ acetylator_type = "Slow"
    /\ recommendations.dose = "2.5-4 mg/kg/day"

C8_OtherKeysIgnored ==
    AnalyzeOver =>
        \A base \in {Without(mutations, OtherKeys), Completed(mutations)} :
            /\ analyze_genotype(mutation_positions, base) = result
            /\ \A k \in OtherKeys : \A v \in Alphabet :
                  analyze_genotype(mutation_positions, base @@ (k :> v)) = result

C8_Witness ==
    /\ AnalyzeOver
    /\ (DOMAIN mutations) \cap OtherKeys # {}
    /\ result = <<"NAT2*6/*6", "Slow", 158>>

\* C9: whatever calls the callers make and however they interleave, the
\* genotype table and mutation_positions keep their initial contents, and two
\* finished calls with the same input have returned the same output.
C9_TablesUnchangedAndDeterministic ==
    /\ NAT2_GENOTYPES = GenotypeTable
    /\ mutation_positions = AnalyzerPositions
    /\ \A a, b \in analyze_log : a[1] = b[1] => a[2] = b[2]
    /\ \A a, b \in dosing_log : a[1] = b[1] => a[2] = b[2]

C9_Witness ==
    /\ Cardinality(analyze_log) >= 3
    /\ Cardinality(dosing_log) >= 3
    /\ \E c, d \in Callers :
          /\ c # d
          /\ threads[c].pc = "done"
          /\ threads[d].pc = "scan"
          /\ threads[d].idx > 1
          /\ threads[c].mutations = threads[d].mutations

\* C10: at the end of the flow the result is a row of the table or the
\* sentinel, the type handed on is Fast, Intermediate, Slow or Unknown, and
\* the recommendation is the fallback exactly when the label is "Unknown".
C10_FlowOutcome ==
    (pc = "done" /\ AnalyzeOver) =>
        /\ \/ result = <<"Unknown", "Unknown", 0>>
           \/ \E i \in Records : result = Row(NAT2_GENOTYPES[i])
        /\ acetylator_type = result[2]
        /\ acetylator_type \in Classes \cup {"Unknown"}
        /\ recommendations = Fallback <=> result[1] = "Unknown"
        /\ recommendations.dose = "Consult specialist" <=> result[1] = "Unknown"

C10_Witness ==
    /\ pc = "done"
    /\ AnalyzeOver
    /\ DOMAIN mutations = SixPositions
    /\ result[1] = "Unknown"
    /\ recommendations.dose = "Consult specialist"

===========================================================================
